---- MODULE Spec2Model ----
(***************************************************************************)
(* A model of build.py, the static feed aggregator of The Future Modern.   *)
(*                                                                         *)
(* Text that the code inspects character by character (titles, links,      *)
(* descriptions, MIME types, the head of a feed document) is a sequence of *)
(* one-character strings.  Names that the code only compares or copies     *)
(* (source names, categories) are plain strings.  A datetime is a record   *)
(* of its proleptic-Gregorian ordinal, its second of the day and its UTC   *)
(* offset, as in CPython's datetime; "set" tells it from None and "aware"  *)
(* tells whether it carries a tzinfo.                                      *)
(***************************************************************************)
EXTENDS Integers, Sequences, FiniteSets, TLC

VARIABLES
    pc,             \* main(): position of the single control flow
    feed_i,         \* main(): index of the feed the loop is at
    xml_text,       \* main(): what fetch_feed returned for the current feed
    all_items,      \* main(): the accumulated list of entries
    output,         \* main(): the document written to args.output
    error,          \* main(): the exception that ended the run, if any
    log,            \* main(): requests, parser calls and sleeps, in order
    input,          \* argument of the function under study
    result,         \* its return value
    called,         \* whether it has returned
    page,           \* filter script: the rendered DOM (items and buttons)
    activeSource,   \* filter script: let activeSource
    activeCategory, \* filter script: let activeCategory
    activeBtns,     \* filter script: buttons carrying class "active"
    hidden          \* filter script: items carrying class "hidden"

mainVars == <<pc, feed_i, xml_text, all_items, output, error, log>>
fnVars == <<input, result, called>>
domVars == <<page, activeSource, activeCategory, activeBtns, hidden>>
vars == <<mainVars, fnVars, domVars>>

(***************************************************************************)
(* Bounds of the model.                                                    *)
(***************************************************************************)
NumFeeds == 3

MaxPieces == 3

(***************************************************************************)
(* Program constants.                                                      *)
(***************************************************************************)
MAX_ITEMS == 200

DetectWindow == 500

DescLimit == 300

SecondsPerDay == 86400

(***************************************************************************)
(* Strings as character sequences.                                         *)
(***************************************************************************)
Null == [none |-> TRUE]

Min(a, b) == IF a < b THEN a ELSE b

\* s[:n]
Take(s, n) == SubSeq(s, 1, Min(n, Len(s)))

\* sub in s
Contains(s, sub) ==
    \E i \in 1..(Len(s) - Len(sub) + 1) : SubSeq(s, i, i + Len(sub) - 1) = sub

\* s.find(sub, start) with 0-based positions, -1 when there is none
Find(s, sub, start) ==
    LET hits == {i \in start..(Len(s) - Len(sub)) :
                    SubSeq(s, i + 1, i + Len(sub)) = sub}
    IN  IF hits = {} THEN -1
        ELSE CHOOSE i \in hits : \A j \in hits : i <= j

IsSpace(c) == c = " "

\* s.lstrip()
Lstrip(s) ==
    LET lead == {i \in 1..Len(s) : ~IsSpace(s[i])}
    IN  IF lead = {} THEN <<>>
        ELSE SubSeq(s, CHOOSE i \in lead : \A j \in lead : i <= j, Len(s))

\* s.strip()
Strip(s) ==
    LET solid == {i \in 1..Len(s) : ~IsSpace(s[i])}
    IN  IF solid = {} THEN <<>>
        ELSE SubSeq(s, CHOOSE i \in solid : \A j \in solid : i <= j,
                       CHOOSE i \in solid : \A j \in solid : i >= j)

\* n copies of the character c
Repeat(c, n) == [i \in 1..n |-> c]

RECURSIVE Flatten(_)
Flatten(ss) == IF ss = <<>> THEN <<>> ELSE Head(ss) \o Flatten(Tail(ss))

(***************************************************************************)
(* html.unescape, for the named references of '<', '>' and '&'.  The       *)
(* reference pattern is  &[^\t\n\f <&#;]{1,32};?  and a reference that is  *)
(* no name of the table is tried by its prefixes, longest first.           *)
(***************************************************************************)
Html5 ==
    {<< <<"l", "t", ";">>, "<" >>, << <<"l", "t">>, "<" >>,
     << <<"g", "t", ";">>, ">" >>, << <<"g", "t">>, ">" >>,
     << <<"a", "m", "p", ";">>, "&" >>, << <<"a", "m", "p">>, "&" >>}

InHtml5(name) == \E e \in Html5 : e[1] = name

Html5Char(name) == (CHOOSE e \in Html5 : e[1] = name)[2]

IsNameChar(c) == c \notin {" ", "<", "&", "#", ";"}

\* length of the run of name characters of s that starts at position i
NameRun(s, i) ==
    LET stops == {j \in i..Len(s) : ~IsNameChar(s[j])}
        stop == IF stops = {} THEN Len(s) + 1
                ELSE CHOOSE j \in stops : \A k \in stops : j <= k
    IN  Min(stop - i, 32)

replace_charref(ref) ==
    IF InHtml5(ref) THEN <<Html5Char(ref)>>
    ELSE LET cuts == {x \in 2..(Len(ref) - 1) : InHtml5(SubSeq(ref, 1, x))}
         IN  IF cuts = {} THEN <<"&">> \o ref
             ELSE LET x == CHOOSE c \in cuts : \A d \in cuts : c >= d
                  IN  <<Html5Char(SubSeq(ref, 1, x))>> \o SubSeq(ref, x + 1, Len(ref))

RECURSIVE UnescapeFrom(_, _)
UnescapeFrom(s, i) ==
    IF i > Len(s) THEN <<>>
    ELSE IF s[i] # "&" THEN <<s[i]>> \o UnescapeFrom(s, i + 1)
    ELSE LET run == NameRun(s, i + 1)
             semi == IF i + run + 1 <= Len(s) /\ s[i + run + 1] = ";" THEN 1 ELSE 0
         IN  IF run = 0 THEN <<"&">> \o UnescapeFrom(s, i + 1)
             ELSE replace_charref(SubSeq(s, i + 1, i + run + semi))
                      \o UnescapeFrom(s, i + run + semi + 1)

unescape(s) == UnescapeFrom(s, 1)

(***************************************************************************)
(* strip_html: the character loop with its in_tag flag, then unescape and  *)
(* strip.                                                                  *)
(***************************************************************************)
RECURSIVE StripTags(_, _, _)
StripTags(text, i, in_tag) ==
    IF i > Len(text) THEN <<>>
    ELSE IF text[i] = "<" THEN StripTags(text, i + 1, TRUE)
    ELSE IF text[i] = ">" THEN StripTags(text, i + 1, FALSE)
    ELSE IF ~in_tag THEN <<text[i]>> \o StripTags(text, i + 1, in_tag)
    ELSE StripTags(text, i + 1, in_tag)

StripHtmlKeepingTags(text) == Strip(unescape(text))

strip_html(text) == Strip(unescape(StripTags(text, 1, FALSE)))

(***************************************************************************)
(* Datetimes.  None is the record with set = FALSE.                        *)
(***************************************************************************)
DateNone == [set |-> FALSE, aware |-> FALSE, ord |-> 0, sec |-> 0, off |-> 0]

NaiveDate(o, s) == [set |-> TRUE, aware |-> FALSE, ord |-> o, sec |-> s, off |-> 0]

AwareDate(o, s, f) == [set |-> TRUE, aware |-> TRUE, ord |-> o, sec |-> s, off |-> f]

\* datetime.min.replace(tzinfo=timezone.utc): 0001-01-01T00:00:00+00:00
datetime_min_utc == AwareDate(1, 0, 0)

\* The instant of a datetime as <<day, second of day>>: an aware one is
\* moved to UTC, a naive one is taken as it stands.
Instant(d) ==
    LET s == d.sec - d.off
    IN  <<d.ord + (s \div SecondsPerDay), s % SecondsPerDay>>

PairLess(a, b) == a[1] < b[1] \/ (a[1] = b[1] /\ a[2] < b[2])

\* a < b, a > b, a - b raise TypeError when exactly one of the two is aware
Comparable(a, b) == a.aware = b.aware

DateLess(a, b) == PairLess(Instant(a), Instant(b))

\* a - b as a normalised timedelta (days, 0 <= seconds < 86400)
DateSub(a, b) ==
    LET s == (a.sec - a.off) - (b.sec - b.off)
    IN  [days |-> (a.ord - b.ord) + (s \div SecondsPerDay),
         seconds |-> s % SecondsPerDay]

(***************************************************************************)
(* Date strings.  A date string is its grammar (fmt), the civil time it    *)
(* spells (ord, sec) and its zone token (tz): "" when it has none, "Z",    *)
(* "-0000" (RFC 2822: no zone information), or a numeric offset.           *)
(***************************************************************************)
NoDateStr == [fmt |-> "empty", ord |-> 0, sec |-> 0, tz |-> ""]

JunkDateStr == [fmt |-> "junk", ord |-> 0, sec |-> 0, tz |-> ""]

DateStr(f, o, s, z) == [fmt |-> f, ord |-> o, sec |-> s, tz |-> z]

TzOffset(z) == IF z = "+0100" THEN 3600 ELSE 0

\* email.utils.parsedate_to_datetime: DateNone stands for ValueError
parsedate_to_datetime(str) ==
    IF str.fmt # "rfc2822" THEN DateNone
    ELSE IF str.tz \in {"", "-0000"} THEN NaiveDate(str.ord, str.sec)
    ELSE AwareDate(str.ord, str.sec, TzOffset(str.tz))

\* datetime.fromisoformat(date_str.replace("Z", "+00:00")): DateNone stands
\* for ValueError
fromisoformat_z(str) ==
    IF str.fmt # "iso8601" THEN DateNone
    ELSE IF str.tz = "" THEN NaiveDate(str.ord, str.sec)
    ELSE AwareDate(str.ord, str.sec, TzOffset(str.tz))

(***************************************************************************)
(* The civil date of an ordinal (CPython's _ord2ymd) and strftime.         *)
(***************************************************************************)
DaysInMonth == <<31, 28, 31, 30, 31, 30, 31, 31, 30, 31, 30, 31>>

DaysBeforeMonth == <<0, 31, 59, 90, 120, 151, 181, 212, 243, 273, 304, 334>>

MonthAbbr ==
    <<"Jan", "Feb", "Mar", "Apr", "May", "Jun",
      "Jul", "Aug", "Sep", "Oct", "Nov", "Dec">>

ord2ymd(o) ==
    LET n0 == o - 1
        n400 == n0 \div 146097
        r400 == n0 % 146097
        n100 == r400 \div 36524
        r100 == r400 % 36524
        n4 == r100 \div 1461
        r4 == r100 % 1461
        n1 == r4 \div 365
        n == r4 % 365
        year == n400 * 400 + 1 + n100 * 100 + n4 * 4 + n1
        leap == n1 = 3 /\ (n4 # 24 \/ n100 = 3)
        m0 == (n + 50) \div 32
        p0 == DaysBeforeMonth[m0] + (IF m0 > 2 /\ leap THEN 1 ELSE 0)
        month == IF p0 > n THEN m0 - 1 ELSE m0
        preceding == IF p0 > n
                     THEN p0 - (DaysInMonth[month]
                                + (IF month = 2 /\ leap THEN 1 ELSE 0))
                     ELSE p0
    IN  IF n1 = 4 \/ n100 = 4
        THEN [year |-> year - 1, month |-> 12, day |-> 31]
        ELSE [year |-> year, month |-> month, day |-> n - preceding + 1]

\* dt.strftime("%b %d, %Y")
strftime(dt) ==
    LET c == ord2ymd(dt.ord)
    IN  MonthAbbr[c.month] \o " " \o (IF c.day < 10 THEN "0" ELSE "")
            \o ToString(c.day) \o ", " \o ToString(c.year)

(***************************************************************************)
(* format_date(dt), with the clock reading of its datetime.now call as a   *)
(* parameter.  FormatRaises tells when now - dt raises TypeError.          *)
(***************************************************************************)
FormatRaises(dt) == dt.set /\ ~dt.aware

FormatDateNoYesterday(dt, now) ==
    IF ~dt.set THEN ""
    ELSE LET diff == DateSub(now, dt)
         IN  IF diff.days = 0
             THEN LET hours == diff.seconds \div 3600
                      mins == diff.seconds \div 60
                  IN  IF hours = 0
                      THEN (IF mins > 0 THEN ToString(mins) \o "m ago" ELSE "just now")
                      ELSE ToString(hours) \o "h ago"
             ELSE IF diff.days < 7 THEN ToString(diff.days) \o "d ago"
             ELSE strftime(dt)

format_date(dt, now) ==
    IF ~dt.set THEN ""
    ELSE LET diff == DateSub(now, dt)
         IN  IF diff.days = 0
             THEN LET hours == diff.seconds \div 3600
                      mins == diff.seconds \div 60
                  IN  IF hours = 0
                      THEN (IF mins > 0 THEN ToString(mins) \o "m ago" ELSE "just now")
                      ELSE ToString(hours) \o "h ago"
             ELSE IF diff.days = 1 THEN "yesterday"
             ELSE IF diff.days < 7 THEN ToString(diff.days) \o "d ago"
             ELSE strftime(dt)

(***************************************************************************)
(* parse_rss.  An XML tree is [ok, nodes]: ok = FALSE when ET.fromstring   *)
(* raises ParseError; nodes are the item (RSS) or entry (Atom) elements.   *)
(* An item's media and enclosures are its media:content and enclosure      *)
(* children in document order; an attribute that is absent reads as the    *)
(* empty string, as .get(name, "") makes it.                               *)
(***************************************************************************)
IMG_OPEN == <<"<", "i", "m", "g">>

SRC_ATTR == <<"s", "r", "c", "=", "\"">>

QUOTE == <<"\"">>

IMAGE == <<"i", "m", "a", "g", "e">>

\* lines 83-92: the first src=" after the first <img of content:encoded
ImgSrc(content) ==
    LET img_start == Find(content, IMG_OPEN, 0)
        src_attr == IF img_start = -1 THEN -1 ELSE Find(content, SRC_ATTR, img_start)
        src_start == src_attr + 5
        src_end == IF src_attr = -1 THEN -1 ELSE Find(content, QUOTE, src_start)
    IN  IF src_end = -1 THEN <<>> ELSE SubSeq(content, src_start + 1, src_end)

RssImageEnclosureFirst(item) ==
    LET fromEnclosure ==
            IF item.enclosures # <<>> /\ Contains(item.enclosures[1].type, IMAGE)
            THEN item.enclosures[1].url ELSE <<>>
        fromMedia ==
            IF fromEnclosure # <<>> THEN fromEnclosure
            ELSE IF item.media # <<>> THEN item.media[1].url ELSE <<>>
    IN  IF fromMedia # <<>> THEN fromMedia ELSE ImgSrc(item.encoded)

\* lines 73-92
RssImage(item) ==
    LET fromMedia == IF item.media # <<>> THEN item.media[1].url ELSE <<>>
        fromEnclosure ==
            IF fromMedia # <<>> THEN fromMedia
            ELSE IF item.enclosures # <<>> /\ Contains(item.enclosures[1].type, IMAGE)
                 THEN item.enclosures[1].url ELSE <<>>
    IN  IF fromEnclosure # <<>> THEN fromEnclosure ELSE ImgSrc(item.encoded)

\* lines 94-99
RssPubDate(item) ==
    IF item.pubDate.fmt = "empty" THEN DateNone
    ELSE parsedate_to_datetime(item.pubDate)

\* lines 64-111: the dict an item would be appended as
RssEntry(item, source_name, source_category) ==
    [title |-> Strip(item.title),
     link |-> Strip(item.link),
     description |-> Take(strip_html(Strip(item.description)), DescLimit),
     date |-> RssPubDate(item),
     source |-> source_name,
     category |-> source_category,
     author |-> IF Strip(item.creator) # <<>> THEN Strip(item.creator)
                ELSE Strip(item.author),
     image |-> RssImage(item)]

\* "if title and link"
HasTitleAndLink(e) == e.title # <<>> /\ e.link # <<>>

Elements(tree, tag) == SelectSeq(tree.nodes, LAMBDA n : n.tag = tag)

parse_rss_unguarded(tree, source_name, source_category) ==
    IF ~tree.ok THEN <<>>
    ELSE LET found == Elements(tree, "item")
         IN  [k \in 1..Len(found) |-> RssEntry(found[k], source_name, source_category)]

parse_rss(tree, source_name, source_category) ==
    IF ~tree.ok THEN <<>>
    ELSE LET found == Elements(tree, "item")
             dicts == [k \in 1..Len(found) |->
                          RssEntry(found[k], source_name, source_category)]
         IN  SelectSeq(dicts, HasTitleAndLink)

(***************************************************************************)
(* parse_atom.  An entry's links are its atom:link children in document    *)
(* order, each with its rel and href attributes.                           *)
(***************************************************************************)
\* lines 128-131
AtomLink(entry) ==
    LET alt == {k \in 1..Len(entry.links) : entry.links[k].rel = "alternate"}
    IN  IF alt # {} THEN entry.links[CHOOSE k \in alt : \A j \in alt : k <= j].href
        ELSE IF entry.links # <<>> THEN entry.links[1].href
        ELSE <<>>

\* lines 139-151
AtomPubDate(entry) ==
    LET date_str == IF entry.published.fmt # "empty" THEN entry.published
                    ELSE entry.updated
    IN  IF date_str.fmt = "empty" THEN DateNone ELSE fromisoformat_z(date_str)

\* lines 127-163
AtomEntry(entry, source_name, source_category) ==
    [title |-> Strip(entry.title),
     link |-> AtomLink(entry),
     description |->
         Take(strip_html(IF Strip(entry.summary) # <<>> THEN Strip(entry.summary)
                         ELSE Strip(entry.content)), DescLimit),
     date |-> AtomPubDate(entry),
     source |-> source_name,
     category |-> source_category,
     author |-> Strip(entry.author),
     image |-> <<>>]

parse_atom(tree, source_name, source_category) ==
    IF ~tree.ok THEN <<>>
    ELSE LET found == Elements(tree, "entry")
             dicts == [k \in 1..Len(found) |->
                          AtomEntry(found[k], source_name, source_category)]
         IN  SelectSeq(dicts, HasTitleAndLink)

(***************************************************************************)
(* The feed list of feeds.json and what the network may answer.            *)
(***************************************************************************)
\* feed.get("category", ""): category is <<>> when the key is absent
Feeds ==
    [k \in 1..NumFeeds |->
        [name |-> "feed" \o ToString(k),
         url |-> "url" \o ToString(k),
         category |-> IF k % 3 = 1 THEN <<>>
                      ELSE IF k % 3 = 2 THEN <<"tech">> ELSE <<"art">>]]

GetCategory(feed) == IF feed.category = <<>> THEN "" ELSE feed.category[1]

RssItem(t, l, d) ==
    [tag |-> "item", title |-> t, link |-> l, description |-> <<>>, pubDate |-> d,
     creator |-> <<>>, author |-> <<>>, media |-> <<>>, enclosures |-> <<>>,
     encoded |-> <<>>]

AtomNode(t, ls, p, u) ==
    [tag |-> "entry", title |-> t, links |-> ls, summary |-> <<>>, content |-> <<>>,
     updated |-> u, published |-> p, author |-> <<>>]

Href(r, h) == [rel |-> r, href |-> h]

FEED_OPEN == <<"<", "f", "e", "e", "d">>

RSS_OPEN == <<"<", "r", "s", "s", " ">>

\* A response body: ws blanks, lead characters of prolog, then the root
\* element's opening (head) and the document, of which tree is the parse.
Body(i, w, n, h, ok, ns) ==
    [id |-> i, ws |-> w, lead |-> n, head |-> h, tree |-> [ok |-> ok, nodes |-> ns]]

\* 2024-03-15 is ordinal 738960
RssMixed ==
    Body("RssMixed", 0, 21, RSS_OPEN, TRUE,
         <<RssItem(<<"n">>, <<"u">>, NoDateStr),
           [RssItem(<<" ", "T", " ">>, <<"u", "1">>,
                    DateStr("rfc2822", 738960, 43200, "+0000"))
               EXCEPT !.description = <<"<", "b", ">", "x", "&", "a", "m", "p", ";">>,
                      !.media = <<[url |-> <<"m">>]>>],
           RssItem(<<" ">>, <<"u", "2">>, DateStr("rfc2822", 738960, 0, "+0000")),
           RssItem(<<"T">>, <<" ">>, DateStr("rfc2822", 738960, 0, "+0000")),
           RssItem(<<"j">>, <<"u", "3">>, JunkDateStr)>>)

RssOffset ==
    Body("RssOffset", 0, 0, RSS_OPEN, TRUE,
         <<RssItem(<<"o">>, <<"u">>, DateStr("rfc2822", 738958, 1800, "+0100")),
           RssItem(<<"p">>, <<"u">>, DateStr("rfc2822", 738958, 0, "Z"))>>)

RssNaive ==
    Body("RssNaive", 0, 0, RSS_OPEN, TRUE,
         <<RssItem(<<"z">>, <<"u">>, DateStr("rfc2822", 738959, 0, "-0000"))>>)

RssBulk ==
    Body("RssBulk", 0, 0, RSS_OPEN, TRUE,
         [k \in 1..(MAX_ITEMS - 2) |->
             RssItem(<<"b">>, <<"u">>,
                     DateStr("rfc2822", 738900 + (k % 3), 0, "+0000"))])

AtomYearOne ==
    Body("AtomYearOne", 0, 38, FEED_OPEN, TRUE,
         <<AtomNode(<<"y">>, <<Href("self", <<"s">>), Href("alternate", <<"u">>)>>,
                    NoDateStr, DateStr("iso8601", 1, 0, "Z")),
           AtomNode(<<"T">>, <<>>, NoDateStr, NoDateStr),
           AtomNode(<<>>, <<Href("alternate", <<"u">>)>>, NoDateStr, NoDateStr),
           AtomNode(<<"T">>, <<Href("alternate", <<>>), Href("self", <<"u">>)>>,
                    NoDateStr, NoDateStr)>>)

AtomNaive ==
    Body("AtomNaive", 0, 0, FEED_OPEN, TRUE,
         <<AtomNode(<<"v">>, <<Href("", <<"u">>)>>,
                    NoDateStr, DateStr("iso8601", 738956, 0, ""))>>)

\* "<feed" starts at offset 495 once the blanks are stripped: the last
\* place of the first 500 characters that holds all of it
AtomEdge ==
    Body("AtomEdge", 2, 495, FEED_OPEN, TRUE,
         <<AtomNode(<<"e">>, <<Href("alternate", <<"u">>)>>,
                    DateStr("iso8601", 738957, 0, "Z"),
                    DateStr("iso8601", 738960, 0, "Z")),
           AtomNode(<<"w">>, <<Href("alternate", <<" ">>)>>, NoDateStr, NoDateStr)>>)

\* "<feed" starts at offset 496: only "<fee" is within the first 500
AtomLate ==
    Body("AtomLate", 0, 496, FEED_OPEN, TRUE,
         <<AtomNode(<<"l">>, <<Href("alternate", <<"u">>)>>,
                    DateStr("iso8601", 738957, 0, "Z"), NoDateStr)>>)

Malformed == Body("Malformed", 0, 0, RSS_OPEN, FALSE, <<>>)

Bodies ==
    {RssMixed, RssOffset, RssNaive, RssBulk, AtomYearOne, AtomNaive, AtomEdge,
     AtomLate, Malformed}

BodyChars(body) ==
    Repeat(" ", body.ws) \o Repeat("-", body.lead) \o body.head \o <<"x", ">">>

\* lines 39-47: the decoded text, stripped on the left (a byte-order mark
\* is not modelled); tree is what ET.fromstring makes of the text
fetch_feed(body) == [chars |-> Lstrip(BodyChars(body)), tree |-> body.tree]

\* what urlopen or resp.read raises that line 48 catches: a connection error
\* or a timeout while connecting (URLError), an HTTP error status (HTTPError)
CaughtErrors == {"URLError", "HTTPError"}

IsAtomAnywhere(text) == Contains(text.chars, FEED_OPEN)

\* line 569
IsAtom(text) == Contains(Take(text.chars, DetectWindow), FEED_OPEN)

(***************************************************************************)
(* The aggregator: line 580 (the sort) and line 581 (the cut).             *)
(***************************************************************************)
\* x["date"] or datetime.min.replace(tzinfo=timezone.utc)
SortKey(e) == IF e.date.set THEN e.date ELSE datetime_min_utc

\* list.sort raises TypeError as soon as it compares a naive key with an
\* aware one, which it must when the list holds both.
SortRaises(items) ==
    {SortKey(items[k]).aware : k \in DOMAIN items} = {TRUE, FALSE}

RECURSIVE ByKeys(_, _, _)
ByKeys(items, keys, newestFirst) ==
    IF keys = {} THEN <<>>
    ELSE LET top == CHOOSE a \in keys : \A b \in keys :
                        IF newestFirst THEN ~PairLess(a, b) ELSE ~PairLess(b, a)
         IN  SelectSeq(items, LAMBDA e : Instant(SortKey(e)) = top)
                 \o ByKeys(items, keys \ {top}, newestFirst)

\* a stable sort by key: the keys in order, the items of one key in the
\* order they had
StableSort(items, newestFirst) ==
    ByKeys(items, {Instant(SortKey(items[k])) : k \in DOMAIN items}, newestFirst)

SortOldestFirst(items) == StableSort(items, FALSE)

\* all_items.sort(key=..., reverse=True)
SortNewestFirst(items) == StableSort(items, TRUE)

Sources(items) == {items[k].source : k \in DOMAIN items}

Categories(items) == {items[k].category : k \in DOMAIN items}

\* the reading of datetime.now(timezone.utc) while the page is rendered
RenderClock == AwareDate(738960, 50000, 0)

\* lines 213-252 and 489: what of the items the document shows
generate_html(items) ==
    [articles |-> [k \in DOMAIN items |->
                      [source |-> items[k].source,
                       category |-> items[k].category,
                       title |-> items[k].title,
                       link |-> items[k].link,
                       date |-> format_date(items[k].date, RenderClock)]],
     source_filters |-> Sources(items),
     category_filters |-> Categories(items),
     n_items |-> Len(items),
     n_sources |-> Cardinality(Sources(items))]

(***************************************************************************)
(* main(), one action per step of its control flow.                        *)
(***************************************************************************)
fnIdle == input = Null /\ result = Null /\ called = FALSE

domIdle ==
    /\ page = Null
    /\ activeSource = <<>>
    /\ activeCategory = <<>>
    /\ activeBtns = {}
    /\ hidden = {}

Init ==
    /\ pc = "fetch"
    /\ feed_i = 1
    /\ xml_text = Null
    /\ all_items = <<>>
    /\ output = Null
    /\ error = ""
    /\ log = <<>>
    /\ fnIdle
    /\ domIdle

Request(k, res, what) == [ev |-> "fetch", feed |-> k, res |-> res, body |-> what]

\* lines 564-566 with 48-50: fetch_feed returns None, main continues
FetchFailed ==
    /\ pc = "fetch"
    /\ feed_i <= NumFeeds
    /\ \E e \in CaughtErrors : log' = Append(log, Request(feed_i, e, ""))
    /\ feed_i' = feed_i + 1
    /\ UNCHANGED <<pc, xml_text, all_items, output, error, fnVars, domVars>>

\* lines 39-40: h.getresponse() or resp.read() times out; socket.timeout is
\* no URLError, so it leaves fetch_feed and main
FetchTimedOut ==
    /\ pc = "fetch"
    /\ feed_i <= NumFeeds
    /\ log' = Append(log, Request(feed_i, "TimeoutError", ""))
    /\ error' = "TimeoutError"
    /\ pc' = "aborted"
    /\ UNCHANGED <<feed_i, xml_text, all_items, output, fnVars, domVars>>

\* line 564 with 39-47
FetchReturned ==
    /\ pc = "fetch"
    /\ feed_i <= NumFeeds
    /\ \E body \in Bodies :
          /\ xml_text' = fetch_feed(body)
          /\ log' = Append(log, Request(feed_i, "ok", body.id))
    /\ pc' = "parse"
    /\ UNCHANGED <<feed_i, all_items, output, error, fnVars, domVars>>

\* lines 568-577
ParseFeed ==
    /\ pc = "parse"
    /\ LET name == Feeds[feed_i].name
           category == GetCategory(Feeds[feed_i])
           atom == IsAtom(xml_text)
           items == IF atom THEN parse_atom(xml_text.tree, name, category)
                    ELSE parse_rss(xml_text.tree, name, category)
       IN  /\ all_items' = all_items \o items
           /\ log' = log \o <<[ev |-> "parse", feed |-> feed_i,
                               parser |-> IF atom THEN "atom" ELSE "rss"],
                              [ev |-> "sleep", feed |-> feed_i]>>
    /\ xml_text' = Null
    /\ feed_i' = feed_i + 1
    /\ pc' = "fetch"
    /\ UNCHANGED <<output, error, fnVars, domVars>>

\* lines 580-581
SortAndTruncate ==
    /\ pc = "fetch"
    /\ feed_i > NumFeeds
    /\ IF SortRaises(all_items)
       THEN /\ error' = "TypeError"
            /\ pc' = "aborted"
            /\ UNCHANGED all_items
       ELSE /\ all_items' = Take(SortNewestFirst(all_items), MAX_ITEMS)
            /\ pc' = "render"
            /\ UNCHANGED error
    /\ UNCHANGED <<feed_i, xml_text, output, log, fnVars, domVars>>

\* lines 585-587: generate_html calls format_date on every item
RenderAndWrite ==
    /\ pc = "render"
    /\ IF \E k \in DOMAIN all_items : FormatRaises(all_items[k].date)
       THEN /\ error' = "TypeError"
            /\ pc' = "aborted"
            /\ UNCHANGED output
       ELSE /\ output' = generate_html(all_items)
            /\ pc' = "done"
            /\ UNCHANGED error
    /\ UNCHANGED <<feed_i, xml_text, all_items, log, fnVars, domVars>>

Next ==
    \/ FetchFailed
    \/ FetchTimedOut
    \/ FetchReturned
    \/ ParseFeed
    \/ SortAndTruncate
    \/ RenderAndWrite

Spec == Init /\ [][Next]_vars

(***************************************************************************)
(* What the log tells of a run.                                            *)
(***************************************************************************)
Requested(k) == \E n \in DOMAIN log : log[n].ev = "fetch" /\ log[n].feed = k

FetchFailure(k) ==
    \E n \in DOMAIN log : log[n].ev = "fetch" /\ log[n].feed = k /\ log[n].res # "ok"

Got(k, id) ==
    \E n \in DOMAIN log : log[n].ev = "fetch" /\ log[n].feed = k /\ log[n].body = id

ParsedBy(k, parser) ==
    \E n \in DOMAIN log : log[n].ev = "parse" /\ log[n].feed = k /\ log[n].parser = parser

BodyOf(k) ==
    LET n == CHOOSE m \in DOMAIN log : log[m].ev = "fetch" /\ log[m].feed = k
    IN  CHOOSE b \in Bodies : b.id = log[n].body

\* the entries source k delivered, read again from the body it answered with
Delivered(k) ==
    IF ~Requested(k) \/ FetchFailure(k) THEN <<>>
    ELSE LET text == fetch_feed(BodyOf(k))
         IN  IF IsAtom(text)
             THEN parse_atom(text.tree, Feeds[k].name, GetCategory(Feeds[k]))
             ELSE parse_rss(text.tree, Feeds[k].name, GetCategory(Feeds[k]))

\* all_items as it stood before line 580
Gathered == Flatten([k \in 1..NumFeeds |-> Delivered(k)])

Count(items, e) == Cardinality({k \in DOMAIN items : items[k] = e})

Dated(items) == {k \in DOMAIN items : items[k].date.set}

Undated(items) == {k \in DOMAIN items : ~items[k].date.set}

Sorted == pc \in {"render", "done"}

(***************************************************************************)
(* C1: a source whose fetch fails (connection error, HTTP error status,    *)
(* or a timeout, also one while the response is read) contributes no entry *)
(* and main goes on with the next source; no fetch failure ends the run.   *)
(***************************************************************************)
C1_FetchFailureIsolated ==
    \A k \in 1..NumFeeds :
        FetchFailure(k) =>
            /\ \A n \in DOMAIN all_items : all_items[n].source # Feeds[k].name
            /\ feed_i > k
            /\ error # "TimeoutError"

(***************************************************************************)
(* C2: in the list main's sort produces, an entry dated D1 comes before    *)
(* any entry dated D2 < D1, and every entry without a date comes after     *)
(* every entry that has one.                                               *)
(***************************************************************************)
C2_NewestFirstUndatedLast ==
    Sorted =>
        \A i, j \in DOMAIN all_items :
            i < j =>
                /\ (all_items[i].date.set /\ all_items[j].date.set)
                       => ~DateLess(all_items[i].date, all_items[j].date)
                /\ ~(~all_items[i].date.set /\ all_items[j].date.set)

(***************************************************************************)
(* C3: with more than MAX_ITEMS entries gathered the result has exactly    *)
(* MAX_ITEMS, no dropped entry is dated later than a kept one, and an      *)
(* undated entry is kept only if fewer than MAX_ITEMS dated entries exist; *)
(* with at most MAX_ITEMS gathered every entry is kept.                    *)
(***************************************************************************)
C3_KeepsTheNewest ==
    Sorted =>
        LET all == Gathered
            kinds == {all[k] : k \in DOMAIN all}
            dropped == {e \in kinds : Count(all, e) > Count(all_items, e)}
        IN  IF Len(all) > MAX_ITEMS
            THEN /\ Len(all_items) = MAX_ITEMS
                 /\ \A d \in dropped : \A k \in Dated(all_items) :
                        d.date.set => ~DateLess(all_items[k].date, d.date)
                 /\ Undated(all_items) # {} => Cardinality(Dated(all)) < MAX_ITEMS
            ELSE Len(all_items) = Len(all) /\ dropped = {}

(***************************************************************************)
(* C4: every entry of the accumulated list and of the rendered document    *)
(* has a non-empty title and a non-empty link, whichever parser made it.   *)
(***************************************************************************)
C4_TitleAndLinkPresent ==
    /\ \A k \in DOMAIN all_items :
           all_items[k].title # <<>> /\ all_items[k].link # <<>>
    /\ pc = "done" =>
           \A k \in DOMAIN output.articles :
               output.articles[k].title # <<>> /\ output.articles[k].link # <<>>

\* both dialects delivered items without a title or without a link, and
\* the document was written with the entries that had both
C4_Witness ==
    /\ pc = "done"
    /\ \E k \in 1..NumFeeds : Got(k, "RssMixed")
    /\ \E k \in 1..NumFeeds : Got(k, "AtomYearOne")
    /\ Len(all_items) = 4

(***************************************************************************)
(* C5: every entry's date is unset or carries a timezone, so that neither  *)
(* the sort nor format_date fails on a date that was parsed.               *)
(***************************************************************************)
C5_DatesCarryTimezone ==
    /\ \A k \in DOMAIN all_items :
           all_items[k].date.set => all_items[k].date.aware
    /\ error # "TypeError"

(***************************************************************************)
(* C7: main hands a fetched text to parse_atom exactly when "<feed" lies   *)
(* wholly within its first 500 characters and to parse_rss otherwise; one  *)
(* parser runs per fetched text and its result is what the text adds.      *)
(***************************************************************************)
FeedOpensAt(chars, p) ==
    /\ p + 4 <= Len(chars)
    /\ <<chars[p], chars[p + 1], chars[p + 2], chars[p + 3], chars[p + 4]>>
           = <<"<", "f", "e", "e", "d">>

C7_DialectRouting ==
    [][pc = "parse" =>
          LET within == \E p \in 1..(DetectWindow - 4) : FeedOpensAt(xml_text.chars, p)
              name == Feeds[feed_i].name
              category == GetCategory(Feeds[feed_i])
          IN  /\ SelectSeq(log', LAMBDA r : r.ev = "parse" /\ r.feed = feed_i)
                     = <<[ev |-> "parse", feed |-> feed_i,
                          parser |-> IF within THEN "atom" ELSE "rss"]>>
              /\ all_items' = all_items \o
                     (IF within THEN parse_atom(xml_text.tree, name, category)
                      ELSE parse_rss(xml_text.tree, name, category))]_vars

\* one text with "<feed" at the last place of the window went to parse_atom
\* and one with "<feed" a character later went to parse_rss
C7_Witness ==
    \E j, k \in 1..NumFeeds :
        /\ Got(j, "AtomEdge") /\ ParsedBy(j, "atom")
        /\ Got(k, "AtomLate") /\ ParsedBy(k, "rss")
        /\ \E n \in DOMAIN all_items : all_items[n].source = Feeds[j].name

(***************************************************************************)
(* strip_html on its own: the argument is any text of up to MaxPieces      *)
(* pieces, a piece being a character, a tag or a character reference.      *)
(***************************************************************************)
mainIdle(at) ==
    /\ pc = at
    /\ feed_i = 0
    /\ xml_text = Null
    /\ all_items = <<>>
    /\ output = Null
    /\ error = ""
    /\ log = <<>>

Pieces ==
    {<<"<">>, <<">">>, <<"b">>, <<" ">>, <<"&">>,
     <<"<", "b", ">">>,
     <<"l", "t", ";">>,
     <<"&", "l", "t", ";">>,
     <<"&", "g", "t", ";">>,
     <<"&", "a", "m", "p", ";">>}

StripInputs ==
    {Flatten(ps) : ps \in UNION {[1..n -> Pieces] : n \in 0..MaxPieces}}

InitStrip ==
    /\ mainIdle("strip_html")
    /\ domIdle
    /\ input \in StripInputs
    /\ result = <<>>
    /\ called = FALSE

CallStripHtml ==
    /\ pc = "strip_html"
    /\ ~called
    /\ result' = strip_html(input)
    /\ called' = TRUE
    /\ UNCHANGED <<input, mainVars, domVars>>

NextStrip == CallStripHtml

SpecStrip == InitStrip /\ [][NextStrip]_vars

HasTag(s) == \E i, j \in DOMAIN s : i < j /\ s[i] = "<" /\ s[j] = ">"

HasAngle(s) == \E i \in DOMAIN s : s[i] \in {"<", ">"}

\* the places of text that lie in no tag: no angle bracket, and the last
\* angle bracket before it, if there is one, is a '>'
Outside(text) ==
    {i \in DOMAIN text :
        /\ text[i] \notin {"<", ">"}
        /\ \A j \in 1..(i - 1) :
               text[j] = "<" => \E k \in (j + 1)..(i - 1) : text[k] = ">"}

At(text, places) ==
    [n \in 1..Cardinality(places) |->
        text[CHOOSE i \in places : Cardinality({j \in places : j <= i}) = n]]

(***************************************************************************)
(* C6 as stated: the result of strip_html holds no '<'...'>' delimited     *)
(* sequence and every character reference outside the tags is decoded,     *)
(* also when the references of the argument spell angle brackets.          *)
(***************************************************************************)
C6_NoTagAllDecoded ==
    called =>
        /\ ~HasTag(result)
        /\ result = Strip(unescape(At(input, Outside(input))))

(***************************************************************************)
(* C6 as amended: strip_html first drops every '<'...'>' delimited         *)
(* sequence and all that follows an unterminated '<', then decodes the     *)
(* character references of what is left, once, and trims it; so its result *)
(* holds an angle bracket only where what was left held a '&'.             *)
(***************************************************************************)
C6_StripsThenDecodes ==
    called =>
        LET left == At(input, Outside(input))
        IN  /\ result = Strip(unescape(left))
            /\ HasAngle(result) => \E i \in DOMAIN left : left[i] = "&"

\* "&lt;b&gt;" came back as "<b>"
C6_Witness ==
    /\ called
    /\ input = <<"&", "l", "t", ";", "b", "&", "g", "t", ";">>
    /\ result = <<"<", "b", ">">>

(***************************************************************************)
(* parse_rss on a feed of one item, for the image of the entry: the item   *)
(* has any of the media:content, enclosure and content:encoded children    *)
(* below.                                                                  *)
(***************************************************************************)
Media(u) == [url |-> u]

Enclosure(t, u) == [type |-> t, url |-> u]

IMAGE_JPEG == <<"i", "m", "a", "g", "e", "/", "j", "p", "e", "g">>

AUDIO_MPEG == <<"a", "u", "d", "i", "o", "/", "m", "p", "e", "g">>

MediaChoices ==
    {<<>>,
     <<Media(<<"m">>)>>,
     <<Media(<<>>)>>,
     <<Media(<<>>), Media(<<"n">>)>>}

EnclosureChoices ==
    {<<>>,
     <<Enclosure(IMAGE_JPEG, <<"e">>)>>,
     <<Enclosure(AUDIO_MPEG, <<"a">>)>>,
     <<Enclosure(AUDIO_MPEG, <<"a">>), Enclosure(IMAGE_JPEG, <<"e">>)>>,
     <<Enclosure(IMAGE_JPEG, <<>>)>>}

\* <img src="i">
IMG_I == IMG_OPEN \o <<" ">> \o SRC_ATTR \o <<"i">> \o QUOTE \o <<">">>

\* <img alt="x"><a data-src="d">
IMG_ALT_THEN_DATA_SRC ==
    IMG_OPEN \o <<" ", "a", "l", "t", "=", "\"", "x", "\"", ">", "<", "a", " ",
                  "d", "a", "t", "a", "-">> \o SRC_ATTR \o <<"d">> \o QUOTE \o <<">">>

\* src="q"<img>
SRC_BEFORE_IMG == SRC_ATTR \o <<"q">> \o QUOTE \o IMG_OPEN \o <<">">>

\* <img src="i
IMG_UNCLOSED == IMG_OPEN \o <<" ">> \o SRC_ATTR \o <<"i">>

EncodedChoices ==
    {<<>>, <<"<", "p", ">">>, IMG_I, IMG_ALT_THEN_DATA_SRC, SRC_BEFORE_IMG,
     IMG_UNCLOSED, <<"<", "p", ">">> \o IMG_I \o IMG_I}

ImageItems ==
    {[RssItem(<<"T">>, <<"u">>, NoDateStr)
         EXCEPT !.media = m, !.enclosures = e, !.encoded = c] :
        m \in MediaChoices, e \in EnclosureChoices, c \in EncodedChoices}

InitImage ==
    /\ mainIdle("parse_rss")
    /\ domIdle
    /\ input \in ImageItems
    /\ result = <<>>
    /\ called = FALSE

CallParseRss ==
    /\ pc = "parse_rss"
    /\ ~called
    /\ result' = parse_rss([ok |-> TRUE, nodes |-> <<input>>], "feed1", "")
    /\ called' = TRUE
    /\ UNCHANGED <<input, mainVars, domVars>>

NextImage == CallParseRss

SpecImage == InitImage /\ [][NextImage]_vars

ImageEnclosures(item) ==
    {k \in DOMAIN item.enclosures : Contains(item.enclosures[k].type, IMAGE)}

\* sub stands in s at the 0-based place p
Occurs(s, sub, p) == p + Len(sub) <= Len(s) /\ SubSeq(s, p + 1, p + Len(sub)) = sub

\* p is the first place at or after from where sub stands in s
FirstAt(s, sub, from, p) ==
    /\ p >= from
    /\ Occurs(s, sub, p)
    /\ \A q \in from..(p - 1) : ~Occurs(s, sub, q)

(***************************************************************************)
(* C8 as stated: the image is the media:content element's url, else the    *)
(* url of an enclosure whose type contains "image", else the first img src *)
(* of content:encoded, else empty; an item with a media:content element    *)
(* and an image/jpeg enclosure gets the media url, never the enclosure's.  *)
(***************************************************************************)
C8_MediaThenEnclosure ==
    called =>
        LET image == result[1].image
            withUrl == {k \in ImageEnclosures(input) : input.enclosures[k].url # <<>>}
        IN  /\ (input.media = <<>> /\ withUrl # {}) =>
                   \E k \in withUrl : image = input.enclosures[k].url
            /\ (input.media # <<>> /\
                \E k \in withUrl : input.enclosures[k].type = IMAGE_JPEG)
                   => /\ image = input.media[1].url
                      /\ \A k \in withUrl : image # input.enclosures[k].url

(***************************************************************************)
(* C8 as amended: the image is the url of the item's first media:content   *)
(* element when that url is not empty; else the url of the item's first    *)
(* enclosure when its type contains "image" and its url is not empty; else *)
(* the text between the first src=" that follows the first <img of         *)
(* content:encoded and the next double quote; else empty.  An item with a  *)
(* media:content element that has a url and an image/jpeg enclosure gets   *)
(* the media url.                                                          *)
(***************************************************************************)
C8_ImagePriority ==
    called =>
        LET image == result[1].image
            c == input.encoded
            byMedia == input.media # <<>> /\ input.media[1].url # <<>>
            byEnclosure ==
                /\ input.enclosures # <<>>
                /\ Contains(input.enclosures[1].type, IMAGE)
                /\ input.enclosures[1].url # <<>>
            scanned(a, b, e) ==
                /\ FirstAt(c, IMG_OPEN, 0, a)
                /\ FirstAt(c, SRC_ATTR, a, b)
                /\ FirstAt(c, QUOTE, b + 5, e)
            places == 0..Len(c)
        IN  /\ byMedia => image = input.media[1].url
            /\ (~byMedia /\ byEnclosure) => image = input.enclosures[1].url
            /\ (~byMedia /\ ~byEnclosure) =>
                   IF \E a, b, e \in places : scanned(a, b, e)
                   THEN \E a, b, e \in places :
                            scanned(a, b, e) /\ image = SubSeq(c, b + 6, e)
                   ELSE image = <<>>

\* an item with a media url, an image/jpeg enclosure and an img in its
\* content got the media url
C8_Witness ==
    /\ called
    /\ input.media = <<Media(<<"m">>)>>
    /\ input.enclosures = <<Enclosure(IMAGE_JPEG, <<"e">>)>>
    /\ input.encoded = IMG_I
    /\ result[1].image = <<"m">>

(***************************************************************************)
(* format_date on its own: dt lies a given number of seconds before the    *)
(* clock reading (after it when negative), written in UTC or at +01:00, or *)
(* is None, or carries no timezone.                                        *)
(***************************************************************************)
\* 2024-03-15 12:00:00, 2024-03-01 00:30:00 and 2024-01-03 23:59:59, UTC
Clocks ==
    {AwareDate(738960, 43200, 0), AwareDate(738946, 1800, 0),
     AwareDate(738888, 86399, 0)}

Agos ==
    {-3600, 0, 30, 59, 60, 600, 3599, 3600, 7200, 86399, 86400, 108000, 172799,
     172800, 518400, 604799, 604800, 691200}

\* the datetime ago seconds before the UTC reading now, at the offset off
Before(now, ago, off) ==
    LET s == now.sec - ago + off
    IN  AwareDate(now.ord + (s \div SecondsPerDay), s % SecondsPerDay, off)

FormatInputs ==
    {[dt |-> Before(now, ago, off), now |-> now, ago |-> ago] :
        now \in Clocks, ago \in Agos, off \in {0, 3600}}
    \cup {[dt |-> DateNone, now |-> now, ago |-> 0] : now \in Clocks}
    \cup {[dt |-> NaiveDate(now.ord - 1, now.sec), now |-> now, ago |-> 86400] :
             now \in Clocks}

InitFormat ==
    /\ mainIdle("format_date")
    /\ domIdle
    /\ input \in FormatInputs
    /\ result = ""
    /\ called = FALSE

CallFormatDate ==
    /\ pc = "format_date"
    /\ ~called
    /\ ~FormatRaises(input.dt)
    /\ result' = format_date(input.dt, input.now)
    /\ called' = TRUE
    /\ UNCHANGED <<input, mainVars, domVars>>

\* line 187: now - dt with a naive dt
FormatDateRaises ==
    /\ pc = "format_date"
    /\ ~called
    /\ FormatRaises(input.dt)
    /\ error' = "TypeError"
    /\ called' = TRUE
    /\ UNCHANGED <<input, result, pc, feed_i, xml_text, all_items, output, log, domVars>>

NextFormat == CallFormatDate \/ FormatDateRaises

SpecFormat == InitFormat /\ [][NextFormat]_vars

Returned == called /\ error = ""

\* "Mon DD, YYYY" of the day eight days before each clock reading, as the
\* calendar has it at the offset of dt
EightDaysBefore(now, off) ==
    IF now.ord = 738960 THEN "Mar 07, 2024"
    ELSE IF now.ord = 738946 THEN "Feb 22, 2024"
    ELSE IF off = 0 THEN "Dec 26, 2023"
    ELSE "Dec 27, 2023"

(***************************************************************************)
(* C9 as stated: format_date gives "1d ago" for an entry dated exactly 30  *)
(* hours before the render time, "10m ago" for 10 minutes before, the      *)
(* absolute "Mon DD, YYYY" for 8 days before and "" for no date.           *)
(***************************************************************************)
C9_ThirtyHoursIsOneDayAgo ==
    Returned =>
        /\ ~input.dt.set => result = ""
        /\ (input.dt.set /\ input.ago = 108000) => result = "1d ago"
        /\ (input.dt.set /\ input.ago = 600) => result = "10m ago"
        /\ (input.dt.set /\ input.ago = 691200)
               => result = EightDaysBefore(input.now, input.dt.off)

(***************************************************************************)
(* C9 as amended: format_date gives "yesterday" for an entry dated exactly *)
(* 30 hours before the render time, "10m ago" for 10 minutes before, the   *)
(* absolute "Mon DD, YYYY" for 8 days before and "" for no date.           *)
(***************************************************************************)
C9_ThirtyHoursIsYesterday ==
    Returned =>
        /\ ~input.dt.set => result = ""
        /\ (input.dt.set /\ input.ago = 108000) => result = "yesterday"
        /\ (input.dt.set /\ input.ago = 600) => result = "10m ago"
        /\ (input.dt.set /\ input.ago = 691200)
               => result = EightDaysBefore(input.now, input.dt.off)

\* an entry dated 30 hours before the reading, written at +01:00
C9_Witness ==
    /\ Returned
    /\ input.dt.set
    /\ input.dt.off = 3600
    /\ input.ago = 108000
    /\ result = "yesterday"

(***************************************************************************)
(* The filter script on a rendered page.  The page shows one entry of each *)
(* feed of a non-empty set of feeds.  A button is its data attribute: the  *)
(* attribute values are feed names and categories without characters that  *)
(* html.escape rewrites, so dataset reads back what line 246 or 250 wrote. *)
(* null is <<>> and a string s is <<s>>.                                   *)
(***************************************************************************)
FeedSets == (SUBSET (1..NumFeeds)) \ {{}}

RECURSIVE EntriesOf(_, _)
EntriesOf(S, k) ==
    IF k > NumFeeds THEN <<>>
    ELSE (IF k \in S
          THEN <<RssEntry(RssItem(<<"T">>, <<"u">>, NoDateStr),
                          Feeds[k].name, GetCategory(Feeds[k]))>>
          ELSE <<>>) \o EntriesOf(S, k + 1)

JsNull == <<>>

\* line 477
AllBtn == [kind |-> "all", name |-> ""]

\* lines 245-252, 478, 480
Buttons(doc) ==
    {AllBtn}
    \cup {[kind |-> "category", name |-> c] : c \in doc.category_filters}
    \cup {[kind |-> "source", name |-> s] : s \in doc.source_filters}

\* this.dataset.filterSource, this.dataset.filterCategory: undefined is <<>>
filterSource(btn) == IF btn.kind = "source" THEN <<btn.name>> ELSE <<>>

filterCategory(btn) == IF btn.kind = "category" THEN <<btn.name>> ELSE <<>>

\* what an if or a ! makes of null, undefined or a string
Truthy(v) == v # <<>> /\ v[1] # ""

\* lines 500-506: the entries applyFilters leaves with the class hidden
applyFilters(doc, src, cat) ==
    {k \in DOMAIN doc.articles :
        ~ /\ (~Truthy(src) \/ <<doc.articles[k].source>> = src)
          /\ (~Truthy(cat) \/ <<doc.articles[k].category>> = cat)}

\* lines 525, 536: classList.toggle("active", force) on the All button
ToggleAll(btns, force) == IF force THEN btns \cup {AllBtn} ELSE btns \ {AllBtn}

\* lines 509-539: the click listener of btn
Click(btn) ==
    /\ input' = btn
    /\ called' = TRUE
    /\ IF btn.kind = "all"
       THEN /\ activeSource' = JsNull
            /\ activeCategory' = JsNull
            /\ activeBtns' = {btn}
       ELSE IF Truthy(filterSource(btn))
       THEN /\ IF activeSource = filterSource(btn)
               THEN /\ activeSource' = JsNull
                    /\ activeBtns' =
                           ToggleAll(activeBtns \ {btn}, ~Truthy(activeCategory))
               ELSE /\ activeSource' = filterSource(btn)
                    /\ activeBtns' =
                           ToggleAll({b \in activeBtns : ~Truthy(filterSource(b))}
                                         \cup {btn}, FALSE)
            /\ UNCHANGED activeCategory
       ELSE IF Truthy(filterCategory(btn))
       THEN /\ IF activeCategory = filterCategory(btn)
               THEN /\ activeCategory' = JsNull
                    /\ activeBtns' =
                           ToggleAll(activeBtns \ {btn}, ~Truthy(activeSource))
               ELSE /\ activeCategory' = filterCategory(btn)
                    /\ activeBtns' =
                           ToggleAll({b \in activeBtns : ~Truthy(filterCategory(b))}
                                         \cup {btn}, FALSE)
            /\ UNCHANGED activeSource
       ELSE UNCHANGED <<activeSource, activeCategory, activeBtns>>
    /\ hidden' = applyFilters(page, activeSource', activeCategory')
    /\ UNCHANGED <<page, result, mainVars>>

InitFilter ==
    /\ mainIdle("page")
    /\ input = Null
    /\ result = Null
    /\ called = FALSE
    /\ \E S \in FeedSets : page = generate_html(EntriesOf(S, 1))
    /\ activeSource = JsNull
    /\ activeCategory = JsNull
    /\ activeBtns = {AllBtn}
    /\ hidden = {}

ClickAll == pc = "page" /\ Click(AllBtn)

ClickSource ==
    /\ pc = "page"
    /\ \E btn \in Buttons(page) : btn.kind = "source" /\ Click(btn)

ClickCategory ==
    /\ pc = "page"
    /\ \E btn \in Buttons(page) : btn.kind = "category" /\ Click(btn)

NextFilter == ClickAll \/ ClickSource \/ ClickCategory

SpecFilter == InitFilter /\ [][NextFilter]_vars

Group(kind) == {b \in Buttons(page) : b.kind = kind}

\* the entries that do not match the filters in force
Unmatched(src, cat) ==
    {k \in DOMAIN page.articles :
        \/ src # JsNull /\ page.articles[k].source # src[1]
        \/ cat # JsNull /\ page.articles[k].category # cat[1]}

(***************************************************************************)
(* C10: on every click, also on the button of the category "": a source or *)
(* category button that is not active becomes the single active filter of  *)
(* its group; the active button of a group clears its group's filter; All  *)
(* clears both groups; and afterwards exactly the entries that match the   *)
(* active source, if any, and the active category, if any, are shown.      *)
(***************************************************************************)
C10_FilterClicks ==
    [][NextFilter =>
        LET btn == input'
        IN  /\ (btn.kind = "source" /\ btn \notin activeBtns)
                   => /\ activeSource' = <<btn.name>>
                      /\ activeBtns' \cap Group("source") = {btn}
            /\ (btn.kind = "source" /\ btn \in activeBtns)
                   => /\ activeSource' = JsNull
                      /\ activeBtns' \cap Group("source") = {}
            /\ (btn.kind = "category" /\ btn \notin activeBtns)
                   => /\ activeCategory' = <<btn.name>>
                      /\ activeBtns' \cap Group("category") = {btn}
            /\ (btn.kind = "category" /\ btn \in activeBtns)
                   => /\ activeCategory' = JsNull
                      /\ activeBtns' \cap Group("category") = {}
            /\ btn.kind = "all"
                   => /\ activeSource' = JsNull
                      /\ activeCategory' = JsNull
                      /\ activeBtns' \cap (Group("source") \cup Group("category")) = {}
            /\ hidden' = Unmatched(activeSource', activeCategory')]_vars

(***************************************************************************)
(* The order of the requests and the sleeps of a run of main, read from    *)
(* the log.                                                                *)
(***************************************************************************)
\* the places of the log that hold a fetch request
Fetches == {n \in DOMAIN log : log[n].ev = "fetch"}

\* places m < n hold requests with no request between them
Consecutive(m, n) ==
    /\ m \in Fetches
    /\ n \in Fetches
    /\ m < n
    /\ \A j \in (m + 1)..(n - 1) : j \notin Fetches

\* time.sleep(0.5) ran between the places m and n
SleptBetween(m, n) == \E j \in (m + 1)..(n - 1) : log[j].ev = "sleep"

(***************************************************************************)
(* C11: sources are requested one at a time in feed-list order, each at    *)
(* most once per run, and between any two consecutive requests the         *)
(* politeness delay elapses, whether the earlier request succeeded or      *)
(* failed.                                                                 *)
(***************************************************************************)
C11_DelayBetweenFetches ==
    /\ \A m, n \in Fetches : m < n => log[m].feed < log[n].feed
    /\ \A m, n \in Fetches : Consecutive(m, n) => SleptBetween(m, n)

====
